---- MODULE Spec2Model ----
(***************************************************************************)
(* A model of doReduce (src/mapreduce/common_reduce.go): one reduce task   *)
(* of the MapReduce library.  The task opens its output file in append     *)
(* mode, then for every map task m = 0..nMap-1 opens the intermediate file *)
(* of (m, reduceTask), decodes its KeyValue records into the map rmap,     *)
(* and - still inside the loop over m - collects the keys of rmap, sorts   *)
(* them, calls reduceF on every key and encodes the result to the output.  *)
(*                                                                         *)
(* Strings are sequences of bytes (keys) so that sort.Strings' byte-wise   *)
(* order is computed, not assumed.  Values are the naturals their decimal  *)
(* text denotes.  log.Fatalln ends the process: pc = "fatal".              *)
(***************************************************************************)
EXTENDS Integers, Sequences, FiniteSets, TLC

\* ------------------------------------------------------------------ bounds
MaxMap == 2       \* nMap ranges over 0..MaxMap
MaxRecs == 2      \* records in all intermediate files together
MaxRuns == 2      \* invocations of doReduce on the same outFile

\* "a", "ab", "b"
Keys == {<<97>>, <<97, 98>>, <<98>>}
Vals == {1, 2}

KeyValue == [Key : Keys, Value : Vals]

\* ------------------------------------------------------------------ state
VARIABLES
    shards,      \* shards[m+1]: the file reduceName(jobName, m, reduceTask)
    out,         \* the records held by the file outFile
    reduceF,     \* which reduce function the caller passed
    pc,          \* where doReduce is
    logged,      \* first argument of the log.Fatalln that ended the task
    rmap,        \* rmap: key -> values
    m,           \* the loop variable m
    pos,         \* records of shard m the decoder has returned
    keys,        \* the sorted keys of the current pass
    ki,          \* index into keys of the emit loop
    run,         \* which invocation this is (1 = the first)
    outStart,    \* history: out when this invocation began
    opened,      \* history: the shard indices os.Open succeeded on, in order
    calls,       \* history: the (key, values) of every reduceF call
    written,     \* history: the records this invocation encoded successfully
    ioerr,       \* history: an Encode or Close error was dropped in this invocation
    prevWritten  \* history: written of the previous completed invocation

vars == <<shards, out, reduceF, pc, logged, rmap, m, pos, keys, ki, run,
          outStart, opened, calls, written, ioerr, prevWritten>>

nMap == Len(shards)

\* ---------------------------------------------------------------- helpers
RECURSIVE SumSeq(_)
SumSeq(s) == IF s = <<>> THEN 0 ELSE Head(s) + SumSeq(Tail(s))

RECURSIVE JoinSeq(_)
\* the decimal text of the values written one after another
JoinSeq(s) == IF s = <<>> THEN 0 ELSE JoinSeq(SubSeq(s, 1, Len(s) - 1)) * 10 + s[Len(s)]

ReduceFns == {"sum", "join"}

ApplyReduceF(f, key, values) ==
    IF f = "sum" THEN SumSeq(values) ELSE JoinSeq(values)

\* Go's < on strings: byte-wise lexicographic
LexLess(a, b) ==
    \E i \in 1..(Len(a) + 1) :
        /\ \A j \in 1..(i - 1) : j <= Len(b) /\ a[j] = b[j]
        /\ IF i <= Len(a) THEN i <= Len(b) /\ a[i] < b[i] ELSE i <= Len(b)

RECURSIVE InsertSorted(_, _)
InsertSorted(k, s) ==
    IF s = <<>> THEN <<k>>
    ELSE IF LexLess(k, Head(s)) THEN <<k>> \o s
    ELSE <<Head(s)>> \o InsertSorted(k, Tail(s))

RECURSIVE SortStrings(_)
SortStrings(s) == IF s = <<>> THEN <<>> ELSE InsertSorted(Head(s), SortStrings(Tail(s)))

\* the orders in which `for k := range rmap` may enumerate the keys
RangeOrders(S) ==
    {p \in [1..Cardinality(S) -> S] : \A i, j \in 1..Cardinality(S) : p[i] = p[j] => i = j}

\* mutant: the entry is replaced instead of extended
RmapOverwrite(rm, kv) ==
    [k \in (DOMAIN rm) \cup {kv.Key} |-> IF k = kv.Key THEN <<kv.Value>> ELSE rm[k]]

\* mutant: the value is put in front of the entry
RmapPrepend(rm, kv) ==
    [k \in (DOMAIN rm) \cup {kv.Key} |->
        IF k # kv.Key THEN rm[k]
        ELSE IF k \in DOMAIN rm THEN <<kv.Value>> \o rm[k] ELSE <<kv.Value>>]

\* lines 88-95: append the value to the entry of the key
RmapAppend(rm, kv) ==
    IF kv.Key \in DOMAIN rm
    THEN [rm EXCEPT ![kv.Key] = Append(@, kv.Value)]
    ELSE [k \in (DOMAIN rm) \cup {kv.Key} |-> IF k = kv.Key THEN <<kv.Value>> ELSE rm[k]]

EmptyMap == [k \in {} |-> <<>>]

\* ------------------------------------------------------------------ inputs
SeqsUpTo(S, n) == UNION {[1..l -> S] : l \in 0..n}

\* An intermediate file: absent, or a sequence of records followed by a clean
\* end of stream or by bytes that do not decode (the decoder never reads on).
MissingFile == [exists |-> FALSE, recs |-> <<>>, corrupt |-> FALSE]

ShardFiles(n) ==
    [exists : {TRUE}, recs : SeqsUpTo(KeyValue, n), corrupt : BOOLEAN] \cup {MissingFile}

Faulty(f) == ~f.exists \/ f.corrupt

RECURSIVE ShardSeqs(_, _)
\* n files holding at most b records together
ShardSeqs(n, b) ==
    IF n = 0 THEN {<<>>}
    ELSE UNION {{<<f>> \o rest : rest \in ShardSeqs(n - 1, b - Len(f.recs))} : f \in ShardFiles(b)}

KV(k, v) == [Key |-> k, Value |-> v]
GoodFile(recs) == [exists |-> TRUE, recs |-> recs, corrupt |-> FALSE]

\* shard 0 = (a,1),(b,2); shard 1 = (a,3)
TwoShardExample ==
    <<GoodFile(<<KV(<<97>>, 1), KV(<<98>>, 2)>>), GoodFile(<<KV(<<97>>, 3)>>)>>

\* The first faulty file ends the task, so one faulty file per task is enough.
Inputs ==
    {s \in UNION {ShardSeqs(n, MaxRecs) : n \in 0..MaxMap} :
        Cardinality({i \in 1..Len(s) : Faulty(s[i])}) <= 1}
    \cup {TwoShardExample}

Init ==
    /\ shards \in Inputs
    /\ reduceF \in ReduceFns
    /\ out = <<>>
    /\ pc = "start"
    /\ logged = "none"
    /\ rmap = EmptyMap
    /\ m = 0
    /\ pos = 0
    /\ keys = <<>>
    /\ ki = 0
    /\ run = 1
    /\ outStart = <<>>
    /\ opened = <<>>
    /\ calls = <<>>
    /\ written = <<>>
    /\ ioerr = FALSE
    /\ prevWritten = <<>>

\* ----------------------------------------------------------------- actions
\* lines 60-65: os.OpenFile(outFile, O_WRONLY|O_APPEND|O_CREATE); a failure is
\* logged with log.Fatalln, which exits the process.
\* mutant: the file is opened with O_TRUNC
OpenedTruncated(old) == <<>>

\* O_APPEND|O_CREATE without O_TRUNC: the file keeps what it held
OpenedContents(old) == old

OpenOutput ==
    /\ pc = "start"
    /\ pc' = "loop"
    /\ out' = OpenedContents(out)
    /\ UNCHANGED <<shards, reduceF, logged, rmap, m, pos, keys, ki, run,
                   outStart, opened, calls, written, ioerr, prevWritten>>

OpenOutputFail ==
    /\ pc = "start"
    /\ pc' = "fatal"
    /\ logged' = "open"
    /\ UNCHANGED <<shards, out, reduceF, rmap, m, pos, keys, ki, run,
                   outStart, opened, calls, written, ioerr, prevWritten>>

\* lines 67-75: m < nMap and os.Open(reduceName(jobName, m, reduceTask)) succeeds
OpenShard ==
    /\ pc = "loop"
    /\ m < nMap
    /\ shards[m + 1].exists
    /\ opened' = Append(opened, m)
    /\ pos' = 0
    /\ pc' = "decode"
    /\ UNCHANGED <<shards, out, reduceF, logged, rmap, m, keys, ki, run,
                   outStart, calls, written, ioerr, prevWritten>>

\* mutant: the shard that cannot be opened is skipped
OnOpenShardErrorSkip ==
    /\ pc' = "loop"
    /\ logged' = logged
    /\ m' = m + 1

\* what doReduce does when os.Open fails (lines 70-73): log.Fatalln("read", ...)
OnOpenShardError ==
    /\ pc' = "fatal"
    /\ logged' = "read"
    /\ UNCHANGED m

OpenShardFail ==
    /\ pc = "loop"
    /\ m < nMap
    /\ ~shards[m + 1].exists
    /\ OnOpenShardError
    /\ UNCHANGED <<shards, out, reduceF, rmap, pos, keys, ki, run,
                   outStart, opened, calls, written, ioerr, prevWritten>>

\* lines 77-96: Decode returns the next record; its value is appended to rmap
DecodeRecord ==
    /\ pc = "decode"
    /\ pos < Len(shards[m + 1].recs)
    /\ rmap' = RmapAppend(rmap, shards[m + 1].recs[pos + 1])
    /\ pos' = pos + 1
    /\ UNCHANGED <<shards, out, reduceF, pc, logged, m, keys, ki, run,
                   outStart, opened, calls, written, ioerr, prevWritten>>

\* what doReduce does when Decode fails with an error other than io.EOF
\* (lines 81-84): log.Fatalln("decode", ...)
OnDecodeError ==
    /\ pc' = "fatal"
    /\ logged' = "decode"
    /\ UNCHANGED pos

DecodeFail ==
    /\ pc = "decode"
    /\ pos = Len(shards[m + 1].recs)
    /\ shards[m + 1].corrupt
    /\ OnDecodeError
    /\ UNCHANGED <<shards, out, reduceF, rmap, m, keys, ki, run,
                   outStart, opened, calls, written, ioerr, prevWritten>>

\* mutant: sort.Strings(keys) is left out
KeysUnsorted(order) == order

\* lines 98-103: the keys of rmap in the order range yields them, then sorted
SortedKeys(order) == SortStrings(order)

\* lines 79-80 and 98-105: Decode returns io.EOF, the inner loop breaks, the
\* keys of rmap are collected and sorted and an encoder on outfile is made
DecodeEOF ==
    /\ pc = "decode"
    /\ pos = Len(shards[m + 1].recs)
    /\ ~shards[m + 1].corrupt
    /\ \E order \in RangeOrders(DOMAIN rmap) : keys' = SortedKeys(order)
    /\ ki' = 0
    /\ pc' = "emit"
    /\ UNCHANGED <<shards, out, reduceF, logged, rmap, m, pos, run,
                   outStart, opened, calls, written, ioerr, prevWritten>>

\* lines 107-113, Encode succeeding: reduceF(key, rmap[key]) is appended to the file
Emit ==
    /\ pc = "emit"
    /\ ki < Len(keys)
    /\ LET key == keys[ki + 1]
           values == rmap[key]
           output == ApplyReduceF(reduceF, key, values)
       IN /\ calls' = Append(calls, [key |-> key, values |-> values])
          /\ out' = Append(out, KV(key, output))
          /\ written' = Append(written, KV(key, output))
    /\ ki' = ki + 1
    /\ UNCHANGED <<shards, reduceF, pc, logged, rmap, m, pos, keys, run,
                   outStart, opened, ioerr, prevWritten>>

\* what doReduce does with the error enc.Encode returns (line 112): it is
\* dropped, the loop goes on with the next key
OnEncodeError ==
    /\ pc' = pc
    /\ logged' = logged
    /\ ki' = ki + 1

\* lines 107-113, Encode failing: nothing reaches the file
EmitFail ==
    /\ pc = "emit"
    /\ ki < Len(keys)
    /\ ioerr' = TRUE
    /\ LET key == keys[ki + 1]
       IN calls' = Append(calls, [key |-> key, values |-> rmap[key]])
    /\ OnEncodeError
    /\ UNCHANGED <<shards, out, reduceF, rmap, m, pos, keys, run,
                   outStart, opened, written, prevWritten>>

\* lines 107, 115, 67: the keys are exhausted, m++
NextShard ==
    /\ pc = "emit"
    /\ ki = Len(keys)
    /\ m' = m + 1
    /\ pc' = "loop"
    /\ UNCHANGED <<shards, out, reduceF, logged, rmap, pos, keys, ki, run,
                   outStart, opened, calls, written, ioerr, prevWritten>>

\* lines 67, 117 and the deferred Close calls (61, 74): m = nMap, doReduce returns
Return ==
    /\ pc = "loop"
    /\ m >= nMap
    /\ pc' = "done"
    /\ UNCHANGED <<shards, out, reduceF, logged, rmap, m, pos, keys, ki, run,
                   outStart, opened, calls, written, ioerr, prevWritten>>

\* as Return, with the deferred outfile.Close() (line 61) failing: the error
\* is dropped
ReturnCloseFail ==
    /\ pc = "loop"
    /\ m >= nMap
    /\ ioerr' = TRUE
    /\ pc' = "done"
    /\ UNCHANGED <<shards, out, reduceF, logged, rmap, m, pos, keys, ki, run,
                   outStart, opened, calls, written, prevWritten>>

\* lines 56-59: doReduce is called again with the same arguments; rmap and the
\* locals are made anew, the files are what the previous call left
Reinvoke ==
    /\ pc = "done"
    /\ run < MaxRuns
    /\ run' = run + 1
    /\ pc' = "start"
    /\ rmap' = EmptyMap
    /\ m' = 0
    /\ pos' = 0
    /\ keys' = <<>>
    /\ ki' = 0
    /\ outStart' = out
    /\ opened' = <<>>
    /\ calls' = <<>>
    /\ written' = <<>>
    /\ ioerr' = FALSE
    /\ prevWritten' = written
    /\ UNCHANGED <<shards, out, reduceF, logged>>

\* doReduce with every write to and close of the output file succeeding
Next ==
    \/ OpenOutput
    \/ OpenOutputFail
    \/ OpenShard
    \/ OpenShardFail
    \/ DecodeRecord
    \/ DecodeFail
    \/ DecodeEOF
    \/ Emit
    \/ NextShard
    \/ Return

Spec == Init /\ [][Next]_vars

\* doReduce on an output file whose writes and close may fail
NextIO ==
    \/ Next
    \/ EmitFail
    \/ ReturnCloseFail

SpecIO == Init /\ [][NextIO]_vars

\* doReduce called again and again on the same files
NextRerun ==
    \/ Next
    \/ Reinvoke

SpecRerun == Init /\ [][NextRerun]_vars

\* --------------------------------------------------- what the claims speak of
IsPrefix(s, t) == Len(s) <= Len(t) /\ SubSeq(t, 1, Len(s)) = s

RECURSIVE AllRecs(_)
\* the records of the shard files 0..n-1, in shard order then file order
AllRecs(n) == IF n = 0 THEN <<>> ELSE AllRecs(n - 1) \o shards[n].recs

KeysOf(recs) == {recs[i].Key : i \in 1..Len(recs)}

RECURSIVE ValuesOf(_, _)
\* the values of the records of recs that carry key k, in their order in recs
ValuesOf(k, recs) ==
    IF recs = <<>> THEN <<>>
    ELSE IF Head(recs).Key = k THEN <<Head(recs).Value>> \o ValuesOf(k, Tail(recs))
    ELSE ValuesOf(k, Tail(recs))

StrictlyIncreasing(ks) == \A i, j \in 1..Len(ks) : i < j => LexLess(ks[i], ks[j])

\* the keys of S in ascending byte-wise order
Ascending(S) == CHOOSE ks \in RangeOrders(S) : StrictlyIncreasing(ks)

\* the contract's output for the records recs: one record per distinct key,
\* ascending, its value reduceF of all the values of the key
Reduced(recs) ==
    LET ks == Ascending(KeysOf(recs))
    IN [i \in 1..Len(ks) |-> KV(ks[i], ApplyReduceF(reduceF, ks[i], ValuesOf(ks[i], recs)))]

\* the shards that have been decoded to end of stream
Consumed == IF pc = "emit" THEN m + 1 ELSE m

\* the records Decode has returned so far
Decoded ==
    IF pc = "decode" \/ (pc = "fatal" /\ logged = "decode")
    THEN AllRecs(m) \o SubSeq(shards[m + 1].recs, 1, pos)
    ELSE AllRecs(Consumed)

Count(P(_), s) == Cardinality({i \in 1..Len(s) : P(s[i])})

Success == pc = "done" /\ ~ioerr
Fresh == outStart = <<>>

\* ------------------------------------------------------------------ claims

\* C1 (Completeness): a successful invocation on a fresh output path leaves
\* exactly one record per distinct key of the shards, its value reduceF of all
\* the values of the key, and no record of any other key; the two-shard
\* example with the summing reduceF leaves (a,4),(b,2); two empty shards leave
\* no record.
C1_Completeness ==
    (Success /\ Fresh) =>
        /\ \A k \in KeysOf(AllRecs(nMap)) :
              /\ Count(LAMBDA r : r.Key = k, out) = 1
              /\ \A i \in 1..Len(out) : out[i].Key = k =>
                    out[i].Value = ApplyReduceF(reduceF, k, ValuesOf(k, AllRecs(nMap)))
        /\ \A i \in 1..Len(out) : out[i].Key \in KeysOf(AllRecs(nMap))
        /\ (shards = TwoShardExample /\ reduceF = "sum") =>
              out = <<KV(<<97>>, 4), KV(<<98>>, 2)>>
        /\ (nMap = 2 /\ AllRecs(nMap) = <<>>) => out = <<>>

\* C2 (Ordering): after a successful invocation on a fresh output path the
\* keys of the output records are strictly increasing, none appearing twice.
C2_Ordering ==
    (Success /\ Fresh) => StrictlyIncreasing([i \in 1..Len(out) |-> out[i].Key])

\* C3 (Exactly-once reduction): within one invocation reduceF is never called
\* twice for one key nor for a key no shard holds, the calls come in ascending
\* key order, and on success every key of the shards has had its call.
C3_ExactlyOnce ==
    /\ StrictlyIncreasing([i \in 1..Len(calls) |-> calls[i].key])
    /\ \A i \in 1..Len(calls) : calls[i].key \in KeysOf(AllRecs(nMap))
    /\ Success => \A k \in KeysOf(AllRecs(nMap)) : Count(LAMBDA c : c.key = k, calls) = 1

\* C4 (Merge before reduce): no reduceF call and no output write happens before
\* every shard has been decoded to end of stream, so every call receives all
\* the values of its key in all the shards.
C4_MergeBeforeReduce ==
    /\ (calls # <<>> \/ written # <<>>) => Consumed = nMap
    /\ \A i \in 1..Len(calls) :
          calls[i].values = ValuesOf(calls[i].key, AllRecs(nMap))

\* C5 (Shard failure aborts the task): a shard that cannot be opened, or a
\* record that does not decode, ends the invocation in the failed state in
\* that very step; the failed state is never left, and in it no further shard
\* is opened, reduceF is not called and nothing is written.
C5_ShardFailureAborts ==
    /\ [][(pc = "loop" /\ m < nMap /\ ~shards[m + 1].exists) =>
            (pc' = "fatal" /\ logged' = "read")]_vars
    /\ [][(pc = "decode" /\ pos = Len(shards[m + 1].recs) /\ shards[m + 1].corrupt) =>
            (pc' = "fatal" /\ logged' = "decode")]_vars
    /\ [][pc = "fatal" => (pc' = "fatal" /\ UNCHANGED <<m, opened, calls, out, written>>)]_vars
    /\ []((pc = "fatal" /\ logged \in {"read", "decode"}) =>
            /\ Faulty(shards[m + 1])
            /\ \A i \in 1..Len(opened) : opened[i] <= m)
    /\ [](pc = "done" => \A i \in 1..nMap : ~Faulty(shards[i]))

C5_Witness ==
    /\ pc = "fatal"
    /\ logged \in {"read", "decode"}
    /\ m = 1
    /\ written # <<>>

\* C6 (Output write failure is fatal): when the output file cannot be opened,
\* or a write to it or its close fails, the invocation is in the failed state:
\* it calls reduceF no more, writes no more and does not complete.
C6_OutputFailureFatal ==
    /\ logged = "open" => pc = "fatal"
    /\ ioerr => pc = "fatal"

\* C7 (Determinism): two successful invocations on the same shards with the
\* same reduceF write the same sequence of records, whatever the order in
\* which the keys of rmap were enumerated.
C7_Determinism ==
    (Success /\ run >= 2) => written = prevWritten

C7_Witness ==
    /\ Success
    /\ run = 2
    /\ Cardinality(DOMAIN rmap) >= 2
    /\ written = prevWritten

\* C8 (Side effects): no step changes a shard file; the records the output
\* file held are kept as a prefix and the invocation's records come after
\* them; a second invocation leaves the first one's records, then its own.
C8_SideEffects ==
    /\ [][shards' = shards /\ IsPrefix(out, out')]_vars
    /\ [](out = outStart \o written)
    /\ []((run = 2 /\ pc = "done") => out = prevWritten \o written)

C8_Witness ==
    /\ run = 2
    /\ pc = "done"
    /\ outStart # <<>>
    /\ written # <<>>
    /\ out = outStart \o written

\* C9 (Multimap accumulation): shards are opened one after another in index
\* order, a shard only after the one before it reached end of stream; rmap has
\* an entry for exactly the keys decoded so far, holding their values in
\* decoding order; entries only grow at their end.
C9_Accumulation ==
    /\ [](/\ opened = [i \in 1..Len(opened) |-> i - 1]
          /\ Len(opened) = IF pc = "decode" \/ (pc = "fatal" /\ logged = "decode")
                           THEN Consumed + 1 ELSE Consumed
          /\ DOMAIN rmap = KeysOf(Decoded)
          /\ \A k \in DOMAIN rmap : rmap[k] = ValuesOf(k, Decoded))
    /\ [][\A k \in DOMAIN rmap : k \in DOMAIN rmap' /\ IsPrefix(rmap[k], rmap'[k])]_vars

C9_Witness ==
    /\ pc = "emit"
    /\ m = 1
    /\ shards[1].recs # <<>>
    /\ shards[2].recs # <<>>
    /\ \E k \in DOMAIN rmap : Len(rmap[k]) = 2 /\ rmap[k][1] # rmap[k][2]

RECURSIVE Batches(_)
\* the batches of the passes 0..n-1: pass j reduces the records of shards 0..j
Batches(n) == IF n = 0 THEN <<>> ELSE Batches(n - 1) \o Reduced(AllRecs(n))

\* the lowest index of a shard holding key k
FirstShard(k) == CHOOSE j \in 0..(nMap - 1) :
    /\ k \in KeysOf(shards[j + 1].recs)
    /\ \A i \in 0..(j - 1) : k \notin KeysOf(shards[i + 1].recs)

====
